---------------------------- MODULE Spec2Model ----------------------------
(***************************************************************************)
(* Model of the Audible metadata provider                                  *)
(* (apps/backend/src/providers/audible.rs): the locale resolver, the       *)
(* query builder, the response normalizer, the pagination accountant and   *)
(* the search/details handlers of AudibleService.                          *)
(*                                                                         *)
(* Option<T> is a sequence of length 0 (None) or 1 (Some).  A call ends    *)
(* with an outcome whose kind is "Ok", "Err" (an anyhow error returned to  *)
(* the caller) or "Panic" (unreachable!(), or an arithmetic overflow in a  *)
(* build with overflow checks).                                            *)
(***************************************************************************)
EXTENDS Integers, Sequences, FiniteSets, TLC

VARIABLES
    build,      \* "debug" (overflow checks on) or "release" (wrapping)
    config,     \* AudibleConfig: [locale]
    client,     \* AudibleService.client: [state, base_url]
    calls,      \* in-flight search/details calls, by call id
    item,       \* normalizer: the AudibleItem being normalized
    media,      \* normalizer: Option<MediaDetails>
    narrowed,   \* normalizer: Option<outcome of the search narrowing>
    stage       \* normalizer: "item", "normalized", "narrowed", or "off"

vars == <<build, config, client, calls, item, media, narrowed, stage>>

(***************************************************************************)
(* Bounds of the model.                                                    *)
(***************************************************************************)
MaxCreators == 2    \* longest authors / narrators list
MaxGroups == 2      \* longest category_ladders list
MaxLadder == 2      \* longest ladder inside one group
NCalls == 2         \* concurrent calls on one adapter instance

(***************************************************************************)
(* Option and Result.                                                      *)
(***************************************************************************)
None == <<>>
Some(x) == <<x>>
IsSome(o) == Len(o) = 1
IsNone(o) == Len(o) = 0
Unwrap(o) == o[1]

\* Option::unwrap_or
unwrap_or(o, d) == IF IsSome(o) THEN o[1] ELSE d

\* Option::or
option_or(a, b) == IF IsSome(a) THEN a ELSE b

\* Every sequence over S of length at most n.
SeqsUpTo(S, n) == UNION {[1..k -> S] : k \in 0..n}

\* The elements of a sequence.
Range(s) == {s[i] : i \in 1..Len(s)}

(***************************************************************************)
(* 32-bit signed arithmetic.  An operation yields the wrapped value v and  *)
(* whether it overflowed, o.  Intermediate values stay inside the i32      *)
(* range.                                                                  *)
(***************************************************************************)
MaxI32 == 2147483647
MinI32 == -MaxI32 - 1

BuildModes == {"debug", "release"}

I32Add(a, b) ==
    IF b > 0 /\ a > MaxI32 - b
        THEN [v |-> (a - MaxI32) + (b - MaxI32) - 2, o |-> TRUE]
    ELSE IF b < 0 /\ a < MinI32 - b
        THEN [v |-> (a + MaxI32) + (b + MaxI32) + 2, o |-> TRUE]
    ELSE [v |-> a + b, o |-> FALSE]

I32Sub(a, b) ==
    IF b < 0 /\ a > MaxI32 + b
        THEN [v |-> (a - MaxI32) - (b + MaxI32) - 2, o |-> TRUE]
    ELSE IF b > 0 /\ a < MinI32 + b
        THEN [v |-> (a + MaxI32) - (b - MaxI32) + 2, o |-> TRUE]
    ELSE [v |-> a - b, o |-> FALSE]

\* a * n for n >= 0, by doubling; every partial product k*a (k <= n) is no
\* larger in magnitude than n*a, so the product overflows iff a step does.
RECURSIVE I32Mul(_, _)
I32Mul(a, n) ==
    IF n = 0 THEN [v |-> 0, o |-> FALSE]
    ELSE IF n % 2 = 1
        THEN LET r == I32Mul(a, n - 1)
                 s == I32Add(r.v, a)
             IN [v |-> s.v, o |-> r.o \/ s.o]
    ELSE LET h == I32Mul(a, n \div 2)
             s == I32Add(h.v, h.v)
         IN [v |-> s.v, o |-> h.o \/ s.o]

(***************************************************************************)
(* Static configuration.                                                   *)
(***************************************************************************)
LOCALES == <<"au", "ca", "de", "es", "fr", "in", "it", "jp", "gb", "us">>

\* crate::miscellaneous::PAGE_LIMIT, the process-wide page size
PAGE_LIMIT == 20

\* MediaProviderLanguages::supported_languages
supported_languages == LOCALES

\* MediaProviderLanguages::default_language
default_language == "us"

\* PrimaryQuery::default()
PrimaryQueryDefault ==
    [response_groups |-> <<"contributors", "category_ladders", "media",
                           "product_attrs", "product_extended_attrs">>,
     image_sizes |-> <<"2400">>]

(***************************************************************************)
(* The response normalizer.                                                *)
(***************************************************************************)
NamedObject(n) == [name |-> n]

\* utils::convert_date_to_year: the 4-digit year of a date string, None when
\* the string holds no date.
convert_date_to_year(s) ==
    IF s = "2020-05-17" THEN Some(2020) ELSE None

\* utils::convert_string_to_date: the calendar date, None when the string
\* does not parse.
convert_string_to_date(s) ==
    IF s = "2020-05-17" THEN Some([y |-> 2020, m |-> 5, d |-> 17]) ELSE None

\* Itertools::unique: keeps the first occurrence of each element, in order.
RECURSIVE UniqueFrom(_, _)
UniqueFrom(s, seen) ==
    IF s = <<>> THEN <<>>
    ELSE IF Head(s) \in seen THEN UniqueFrom(Tail(s), seen)
    ELSE <<Head(s)>> \o UniqueFrom(Tail(s), seen \cup {Head(s)})

Unique(s) == UniqueFrom(s, {})

\* Iterator::flat_map over the ladders: the node names, group after group.
RECURSIVE FlatNames(_)
FlatNames(groups) ==
    IF groups = <<>> THEN <<>>
    ELSE [i \in 1..Len(Head(groups).ladder) |-> Head(groups).ladder[i].name]
         \o FlatNames(Tail(groups))

MetadataCreator(n, r) == [name |-> n, role |-> r, image_urls |-> <<>>]

\* .into_iter().map(|a| MetadataCreator { name: a.name, role, .. })
WithRole(people, r) == [i \in 1..Len(people) |-> MetadataCreator(people[i].name, r)]

\* Faulty variant: the image is recorded as a content-addressed (S3) one.
ImagesS3(it) ==
    [i \in 1..Len(it.product_images.image) |->
        [url |-> [kind |-> "S3", value |-> it.product_images.image[i]],
         lot |-> "Poster"]]

\* let images = Vec::from_iter(item.product_images.image.map(..))
Images(it) ==
    [i \in 1..Len(it.product_images.image) |->
        [url |-> [kind |-> "Url", value |-> it.product_images.image[i]],
         lot |-> "Poster"]]

\* Faulty variant: the narrators come before the authors.
CreatorsNarratorsFirst(it) ==
    WithRole(unwrap_or(it.narrators, <<>>), "Narrator")
    \o WithRole(unwrap_or(it.authors, <<>>), "Author")

\* let mut creators = authors..collect(); creators.extend(narrators..)
Creators(it) ==
    WithRole(unwrap_or(it.authors, <<>>), "Author")
    \o WithRole(unwrap_or(it.narrators, <<>>), "Narrator")

\* Faulty variant: the secondary summary is preferred.
DescriptionSecondaryFirst(it) == option_or(it.merchandising_summary, it.publisher_summary)

\* let description = item.publisher_summary.or(item.merchandising_summary)
Description(it) == option_or(it.publisher_summary, it.merchandising_summary)

\* Faulty variant: the flattened names are not deduplicated.
GenresNoDedup(it) == FlatNames(unwrap_or(it.category_ladders, <<>>))

\* genres: category_ladders.unwrap_or_default()..flat_map(..).unique().collect()
Genres(it) == Unique(FlatNames(unwrap_or(it.category_ladders, <<>>)))

\* AudibleService::audible_response_to_search_response
audible_response_to_search_response(it) ==
    LET release_date == unwrap_or(it.release_date, "")
    IN [identifier |-> it.asin,
        lot |-> "AudioBook",
        source |-> "Audible",
        title |-> it.title,
        description |-> Description(it),
        creators |-> Creators(it),
        genres |-> Genres(it),
        publish_year |-> convert_date_to_year(release_date),
        publish_date |-> convert_string_to_date(release_date),
        specifics |-> [kind |-> "AudioBook", runtime |-> it.runtime_length_min],
        images |-> Images(it)]

\* The closure of search: a MediaDetails narrowed to a MediaSearchItem.  An
\* S3 image reaches unreachable!().
SearchItem(a) ==
    IF \E i \in 1..Len(a.images) : a.images[i].url.kind = "S3"
        THEN [kind |-> "Panic", value |-> <<>>]
    ELSE [kind |-> "Ok",
          value |-> <<[identifier |-> a.identifier,
                       lot |-> "AudioBook",
                       title |-> a.title,
                       images |-> [i \in 1..Len(a.images) |-> a.images[i].url.value],
                       publish_year |-> a.publish_year]>>]

(***************************************************************************)
(* The locale resolver and the constructor.                                *)
(***************************************************************************)
Ok(x) == [kind |-> "Ok", value |-> <<x>>]
Err == [kind |-> "Err", value |-> <<>>]
Panic == [kind |-> "Panic", value |-> <<>>]

\* The match of url_from_locale: the suffix of a locale, None for the
\* wildcard arm.
LocaleSuffix(locale) ==
    CASE locale = "us" -> Some("com")
      [] locale = "ca" -> Some("ca")
      [] locale = "uk" -> Some("co.uk")
      [] locale = "au" -> Some("co.au")
      [] locale = "fr" -> Some("fr")
      [] locale = "de" -> Some("de")
      [] locale = "jp" -> Some("co.jp")
      [] locale = "it" -> Some("it")
      [] locale = "in" -> Some("co.in")
      [] locale = "es" -> Some("es")
      [] OTHER -> None

\* AudibleService::url_from_locale: format!("https://api.audible.{}/1.0/
\* catalog/products/", suffix), or unreachable!().
url_from_locale(locale) ==
    LET suffix == LocaleSuffix(locale)
    IN IF IsNone(suffix) THEN Panic
       ELSE Ok(<<"https://api.audible.", Unwrap(suffix), "/1.0/catalog/products/">>)

Unbuilt == [state |-> "unbuilt", base_url |-> <<>>]

\* AudibleService::new
new(cfg) ==
    LET url == url_from_locale(cfg.locale)
    IN IF url.kind = "Panic" THEN [state |-> "panicked", base_url |-> <<>>]
       ELSE [state |-> "ready", base_url |-> Unwrap(url.value)]

(***************************************************************************)
(* Upstream payloads.  A raw item is an item of the upstream JSON: each of *)
(* the fields AudibleItem requires (asin, title, product_images) may be    *)
(* missing.                                                                *)
(***************************************************************************)
\* serde: AudibleItem from a JSON item; asin, title and product_images are
\* required fields, the others are Options.
ParseItem(raw) ==
    IF IsNone(raw.asin) \/ IsNone(raw.title) \/ IsNone(raw.product_images) THEN None
    ELSE Some([raw EXCEPT !.asin = Unwrap(raw.asin),
                          !.title = Unwrap(raw.title),
                          !.product_images = Unwrap(raw.product_images)])

\* body_json::<AudibleItemResponse>
ParseItemResponse(body) ==
    IF body.shape # "product" THEN None
    ELSE LET p == ParseItem(body.product)
         IN IF IsNone(p) THEN None ELSE Some([product |-> Unwrap(p)])

\* body_json::<AudibleSearchResponse>
ParseSearchResponse(body) ==
    IF body.shape # "search" THEN None
    ELSE IF \E i \in 1..Len(body.products) : IsNone(ParseItem(body.products[i]))
        THEN None
    ELSE Some([total_results |-> body.total_results,
               products |-> [i \in 1..Len(body.products) |->
                                Unwrap(ParseItem(body.products[i]))]])

(***************************************************************************)
(* details                                                                 *)
(***************************************************************************)
\* self.client.get(identifier).query(&PrimaryQuery::default())
details_request(cl, identifier) ==
    [base_url |-> cl.base_url, path |-> identifier,
     query |-> [primary |-> PrimaryQueryDefault]]

\* The awaited request: .await.map_err(|e| anyhow!(e))?  An error of the
\* request is returned; a response is kept whatever its status, which is
\* not read.
request_result(rsp) == IF rsp.transport = "err" THEN Some(Err) ELSE None

\* details after rsp.body_json() is awaited: body is what was read.
details_finish(body) ==
    LET data == ParseItemResponse(body)
    IN IF IsNone(data) THEN Err
       ELSE Ok(audible_response_to_search_response(Unwrap(data).product))

(***************************************************************************)
(* search                                                                  *)
(***************************************************************************)
\* An arithmetic result under the build's overflow behaviour: None when the
\* operation panics.
Checked(b, r) == IF r.o /\ b = "debug" THEN None ELSE Some(r.v)

\* let page = page.unwrap_or(1); SearchQuery { .. page: page - 1 .. }
\* None when page - 1 panics.
search_request(b, cl, query, page) ==
    LET p == unwrap_or(page, 1)
        idx == Checked(b, I32Sub(p, 1))
    IN IF IsNone(idx) THEN None
       ELSE Some([base_url |-> cl.base_url, path |-> "",
                  query |-> [title |-> query,
                             num_results |-> PAGE_LIMIT,
                             page |-> Unwrap(idx),
                             products_sort_by |-> "Relevance",
                             primary |-> PrimaryQueryDefault]])

\* let next_page = if total_results - page * PAGE_LIMIT > 0 { Some(page + 1) }
\* else { None }.  None (of the outer option) when an operation panics.
next_page(b, total_results, page) ==
    LET prod == Checked(b, I32Mul(page, PAGE_LIMIT))
    IN IF IsNone(prod) THEN None
       ELSE LET diff == Checked(b, I32Sub(total_results, Unwrap(prod)))
            IN IF IsNone(diff) THEN None
               ELSE IF Unwrap(diff) > 0
                   THEN LET nxt == Checked(b, I32Add(page, 1))
                        IN IF IsNone(nxt) THEN None ELSE Some(nxt)
               ELSE Some(None)

\* search after rsp.body_json() is awaited: body is what was read.
search_finish(b, page, body) ==
    LET parsed == ParseSearchResponse(body)
    IN IF IsNone(parsed) THEN Err
       ELSE LET search == Unwrap(parsed)
                resp == [i \in 1..Len(search.products) |->
                            SearchItem(audible_response_to_search_response(
                                search.products[i]))]
                np == next_page(b, search.total_results, unwrap_or(page, 1))
            IN IF \E i \in 1..Len(resp) : resp[i].kind = "Panic" THEN Panic
               ELSE IF IsNone(np) THEN Panic
               ELSE Ok([total |-> search.total_results,
                        items |-> [i \in 1..Len(resp) |-> Unwrap(resp[i].value)],
                        next_page |-> Unwrap(np)])

(***************************************************************************)
(* Inputs.                                                                 *)
(***************************************************************************)
OptionOf(S) == {None} \cup {Some(x) : x \in S}

CreatorNames == {"Ann", "Bob"}
GenreNames == {"A", "B"}

NamedSeqs(S, n) == SeqsUpTo({NamedObject(x) : x \in S}, n)

CreatorInputs == OptionOf(NamedSeqs(CreatorNames, MaxCreators))

LadderInputs == {[ladder |-> l] : l \in NamedSeqs(GenreNames, MaxLadder)}

CategoryInputs == OptionOf(SeqsUpTo(LadderInputs, MaxGroups))

\* Items whose contributors and summaries vary.
CreatorSlice ==
    {[asin |-> "B01", title |-> "T",
      authors |-> au, narrators |-> na,
      product_images |-> [image |-> im],
      merchandising_summary |-> ms, publisher_summary |-> ps,
      release_date |-> rd, runtime_length_min |-> Some(600),
      category_ladders |-> cl] :
        au \in CreatorInputs, na \in CreatorInputs,
        im \in OptionOf({"https://m.media/2400.jpg"}),
        ms \in OptionOf({"merch"}), ps \in OptionOf({"publisher"}),
        rd \in OptionOf({"", "2020-05-17"}),
        cl \in {None, Some(<<[ladder |-> <<NamedObject("A")>>]>>)}}

\* Items whose category ladders vary.
GenreSlice ==
    {[asin |-> a, title |-> "T",
      authors |-> au, narrators |-> None,
      product_images |-> [image |-> im],
      merchandising_summary |-> Some("merch"), publisher_summary |-> None,
      release_date |-> None, runtime_length_min |-> None,
      category_ladders |-> cl] :
        a \in {"", "B02"},
        au \in {None, Some(<<NamedObject("Ann")>>)},
        im \in OptionOf({"https://m.media/2400.jpg"}),
        cl \in CategoryInputs}

ItemInputs == CreatorSlice \cup GenreSlice

\* Items of the upstream JSON used by the calls.
RawGood ==
    [asin |-> Some("B01"), title |-> Some("T"),
     authors |-> Some(<<NamedObject("Ann")>>),
     narrators |-> Some(<<NamedObject("Bob")>>),
     product_images |-> Some([image |-> Some("https://m.media/2400.jpg")]),
     merchandising_summary |-> Some("merch"),
     publisher_summary |-> Some("publisher"),
     release_date |-> Some("2020-05-17"),
     runtime_length_min |-> Some(600),
     category_ladders |-> Some(<<[ladder |-> <<NamedObject("A")>>],
                                 [ladder |-> <<NamedObject("B"), NamedObject("A")>>]>>)]

RawSparse ==
    [asin |-> Some("B02"), title |-> Some("U"),
     authors |-> None, narrators |-> None,
     product_images |-> Some([image |-> None]),
     merchandising_summary |-> None, publisher_summary |-> None,
     release_date |-> None, runtime_length_min |-> None,
     category_ladders |-> None]

RawEmptyAsin == [RawGood EXCEPT !.asin = Some("")]

RawNoAsin == [RawGood EXCEPT !.asin = None]

RawNoTitle == [RawSparse EXCEPT !.title = None]

RawNoImages == [RawGood EXCEPT !.product_images = None]

RawItems == {RawGood, RawSparse, RawEmptyAsin, RawNoAsin, RawNoTitle, RawNoImages}

\* A body that cannot be read as JSON of an expected shape.
Garbage == [shape |-> "garbage"]
ProductBody(raw) == [shape |-> "product", product |-> raw]
SearchBody(t, prods) == [shape |-> "search", total_results |-> t, products |-> prods]

TransportError == [transport |-> "err", status |-> 0]

\* What the awaited request can yield: a transport failure, or the head of
\* an HTTP response of some status.  The body is read afterwards.
Heads ==
    {TransportError} \cup {[transport |-> "ok", status |-> st] : st \in {200, 404}}

\* Inputs of the concurrent specification.
Queries == {"foo"}
Pages == {None, Some(2)}
Identifiers == {"B01"}
Bodies == {Garbage, ProductBody(RawGood), SearchBody(45, <<RawGood>>)}
Locales == {default_language}

\* Inputs of the single-call specification.
WideQueries == {"foo", ""}
WidePages ==
    OptionOf({MinI32, -1, 0, 1, 2, 3, 107374182, 107374183, MaxI32})
WideIdentifiers == {"B01", "nonexistent-id", ""}
WideTotals == {0, 20, 21, 40, 45, 60, 61, MaxI32}
WideProducts ==
    {<<>>, <<RawGood, RawSparse>>, <<RawGood, RawNoAsin>>}
    \cup {<<r>> : r \in RawItems}
WideBodies ==
    {Garbage}
    \cup {ProductBody(r) : r \in RawItems}
    \cup {SearchBody(t, ps) : t \in WideTotals, ps \in WideProducts}
WideLocales == Range(LOCALES) \cup {"uk", "zz"}

(***************************************************************************)
(* The adapter and its calls.                                              *)
(***************************************************************************)
CallIds == 1..NCalls

Idle ==
    [pc |-> "idle", op |-> "none", arg |-> "", page |-> None,
     request |-> None, response |-> None, body |-> None, result |-> None]

\* AudibleService::new(&config)
New ==
    /\ client.state = "unbuilt"
    /\ client' = new(config)
    /\ UNCHANGED <<build, config, calls, item, media, narrowed, stage>>

\* details(identifier), up to the await of the request.
StartDetails(c, ids) ==
    /\ client.state = "ready"
    /\ calls[c].pc = "idle"
    /\ \E id \in ids :
        calls' = [calls EXCEPT ![c] =
            [pc |-> "sent", op |-> "details", arg |-> id, page |-> None,
             request |-> Some(details_request(client, id)),
             response |-> None, body |-> None, result |-> None]]
    /\ UNCHANGED <<build, config, client, item, media, narrowed, stage>>

\* search(query, page), up to the await of the request; the call ends here
\* when page - 1 panics.
StartSearch(c, qs, ps) ==
    /\ client.state = "ready"
    /\ calls[c].pc = "idle"
    /\ \E q \in qs, p \in ps :
        LET req == search_request(build, client, q, p)
        IN calls' = [calls EXCEPT ![c] =
            [pc |-> IF IsNone(req) THEN "done" ELSE "sent",
             op |-> "search", arg |-> q, page |-> p,
             request |-> req, response |-> None, body |-> None,
             result |-> IF IsNone(req) THEN Some(Panic) ELSE None]]
    /\ UNCHANGED <<build, config, client, item, media, narrowed, stage>>

\* The request of call c completes: the head of a response, or a failure.
Reply(c, hs) ==
    /\ calls[c].pc = "sent"
    /\ \E h \in hs :
        calls' = [calls EXCEPT ![c].pc = "received", ![c].response = Some(h)]
    /\ UNCHANGED <<build, config, client, item, media, narrowed, stage>>

\* let mut rsp = ...await: the outcome of the call's own request.
ResponseFor(c) == Unwrap(calls[c].response)

\* details resumes from the awaited request: it returns the error of the
\* request, or starts rsp.body_json() and waits for the body.
ResumeDetails(c) ==
    /\ calls[c].pc = "received"
    /\ calls[c].op = "details"
    /\ LET r == request_result(ResponseFor(c))
       IN calls' = [calls EXCEPT ![c].pc = IF IsSome(r) THEN "done" ELSE "reading",
                                 ![c].result = r]
    /\ UNCHANGED <<build, config, client, item, media, narrowed, stage>>

\* search resumes from the awaited request, likewise.
ResumeSearch(c) ==
    /\ calls[c].pc = "received"
    /\ calls[c].op = "search"
    /\ LET r == request_result(ResponseFor(c))
       IN calls' = [calls EXCEPT ![c].pc = IF IsSome(r) THEN "done" ELSE "reading",
                                 ![c].result = r]
    /\ UNCHANGED <<build, config, client, item, media, narrowed, stage>>

\* The body of the response of call c has been read.
BodyArrives(c, bs) ==
    /\ calls[c].pc = "reading"
    /\ \E b \in bs :
        calls' = [calls EXCEPT ![c].pc = "body", ![c].body = Some(b)]
    /\ UNCHANGED <<build, config, client, item, media, narrowed, stage>>

\* Faulty variant: one body slot shared by the calls, holding the body of
\* the highest call that has read one.
BodyShared(c) ==
    Unwrap(calls[CHOOSE d \in CallIds :
                     /\ calls[d].pc = "body"
                     /\ \A e \in CallIds : calls[e].pc = "body" => d >= e].body)

\* rsp.body_json().await: the body of the call's own response.
BodyFor(c) == Unwrap(calls[c].body)

\* details, from the awaited body to the return.
FinishDetails(c) ==
    /\ calls[c].pc = "body"
    /\ calls[c].op = "details"
    /\ calls' = [calls EXCEPT ![c].pc = "done",
                              ![c].result = Some(details_finish(BodyFor(c)))]
    /\ UNCHANGED <<build, config, client, item, media, narrowed, stage>>

\* search, from the awaited body to the return.
FinishSearch(c) ==
    /\ calls[c].pc = "body"
    /\ calls[c].op = "search"
    /\ calls' = [calls EXCEPT ![c].pc = "done",
                              ![c].result =
                                  Some(search_finish(build, calls[c].page, BodyFor(c)))]
    /\ UNCHANGED <<build, config, client, item, media, narrowed, stage>>

\* The caller takes the result; the slot is free for another call.
Return(c) ==
    /\ calls[c].pc = "done"
    /\ calls' = [calls EXCEPT ![c] = Idle]
    /\ UNCHANGED <<build, config, client, item, media, narrowed, stage>>

NormOff ==
    /\ item = None
    /\ media = None
    /\ narrowed = None
    /\ stage = "off"

\* Concurrent calls on one adapter.
Init ==
    /\ build \in BuildModes
    /\ config \in [locale : Locales]
    /\ client = Unbuilt
    /\ calls = [c \in CallIds |-> Idle]
    /\ NormOff

Next ==
    \/ New
    \/ \E c \in CallIds : StartDetails(c, Identifiers)
    \/ \E c \in CallIds : StartSearch(c, Queries, Pages)
    \/ \E c \in CallIds : Reply(c, Heads)
    \/ \E c \in CallIds : ResumeDetails(c)
    \/ \E c \in CallIds : ResumeSearch(c)
    \/ \E c \in CallIds : BodyArrives(c, Bodies)
    \/ \E c \in CallIds : FinishDetails(c)
    \/ \E c \in CallIds : FinishSearch(c)
    \/ \E c \in CallIds : Return(c)

Spec == Init /\ [][Next]_vars

\* One call at a time, over every locale and the boundary inputs.
InitOne ==
    /\ build \in BuildModes
    /\ config \in [locale : WideLocales]
    /\ client = Unbuilt
    /\ calls = [c \in CallIds |-> Idle]
    /\ NormOff

NextOne ==
    \/ New
    \/ StartDetails(1, WideIdentifiers)
    \/ StartSearch(1, WideQueries, WidePages)
    \/ Reply(1, Heads)
    \/ ResumeDetails(1)
    \/ ResumeSearch(1)
    \/ BodyArrives(1, WideBodies)
    \/ FinishDetails(1)
    \/ FinishSearch(1)
    \/ Return(1)

SpecOne == InitOne /\ [][NextOne]_vars

(***************************************************************************)
(* The normalizer on its own.                                              *)
(***************************************************************************)
Normalize ==
    /\ stage = "item"
    /\ media' = Some(audible_response_to_search_response(Unwrap(item)))
    /\ stage' = "normalized"
    /\ UNCHANGED <<build, config, client, calls, item, narrowed>>

Narrow ==
    /\ stage = "normalized"
    /\ narrowed' = Some(SearchItem(Unwrap(media)))
    /\ stage' = "narrowed"
    /\ UNCHANGED <<build, config, client, calls, item, media>>

InitNorm ==
    /\ build = "release"
    /\ config = [locale |-> default_language]
    /\ client = new(config)
    /\ calls = [c \in CallIds |-> Idle]
    /\ item \in {Some(i) : i \in ItemInputs}
    /\ media = None
    /\ narrowed = None
    /\ stage = "item"

NextNorm == Normalize \/ Narrow

SpecNorm == InitNorm /\ [][NextNorm]_vars

(***************************************************************************)
(* Properties.                                                             *)
(***************************************************************************)
Done(c) == calls[c].pc = "done"
Result(c) == Unwrap(calls[c].result)
Answered(c) == IsSome(calls[c].body)
Body(c) == Unwrap(calls[c].body)

\* The 1-based page of a search call: 1 when the argument is absent.
PageOf(c) == IF calls[c].page = None THEN 1 ELSE calls[c].page[1]

\* t - p*s > 0 over the integers, for s > 0: p*s <= t - 1, that is
\* p <= floor((t - 1) / s); written so that no product is formed.
MoreResults(t, p, s) == t >= 1 /\ p <= (t - 1) \div s

\* C1: every successful search with page P >= 1 and upstream total T >= 0
\* returns next_page = Some(P + 1) if T - P * PAGE_LIMIT > 0 over the
\* integers, and None otherwise.
C1_NextPageIffMoreResults ==
    \A c \in CallIds :
        (/\ Done(c)
         /\ calls[c].op = "search"
         /\ Result(c).kind = "Ok"
         /\ PageOf(c) >= 1
         /\ Unwrap(Result(c).value).total >= 0)
        => LET t == Unwrap(Result(c).value).total
               np == Unwrap(Result(c).value).next_page
           IN IF MoreResults(t, PageOf(c), PAGE_LIMIT)
                  THEN np = Some(PageOf(c) + 1)
                  ELSE np = None

\* C2: constructing the adapter with any locale of the declared supported
\* set yields a client on that locale's base endpoint; construction fails
\* fast only for locales outside the declared set.
C2_SupportedLocalesResolve ==
    /\ (client.state = "panicked" => config.locale \notin Range(supported_languages))
    /\ (client.state # "unbuilt" /\ config.locale \in Range(supported_languages)
            => /\ client.state = "ready"
               /\ Ok(client.base_url) = url_from_locale(config.locale))

\* C3: every identifier a successful details or search call returns is a
\* non-empty string equal to the upstream asin of its item; an upstream item
\* whose asin is empty or missing makes the call fail.
C3_IdentifiersNeverEmpty ==
    \A c \in CallIds :
        (Done(c) /\ Answered(c) /\ Result(c).kind = "Ok")
        => LET v == Unwrap(Result(c).value)
           IN IF calls[c].op = "details"
                  THEN /\ Body(c).shape = "product"
                       /\ v.identifier # ""
                       /\ Body(c).product.asin = Some(v.identifier)
                  ELSE /\ Body(c).shape = "search"
                       /\ Len(v.items) = Len(Body(c).products)
                       /\ \A i \in 1..Len(v.items) :
                            /\ v.items[i].identifier # ""
                            /\ Body(c).products[i].asin = Some(v.items[i].identifier)

\* C4: a details call whose upstream reply has a non-success HTTP status
\* returns an error, whatever the body of the reply; it never returns Ok and
\* never panics.
C4_DetailsNonSuccessIsError ==
    \A c \in CallIds :
        (/\ Done(c)
         /\ calls[c].op = "details"
         /\ IsSome(calls[c].response)
         /\ Unwrap(calls[c].response).transport = "ok"
         /\ Unwrap(calls[c].response).status = 404)
        => Result(c).kind = "Err"

\* C5: every search call that sends its request sends the upstream the
\* 0-based page index P - 1, which is never negative (P is 1 when the page
\* argument is absent), with num_results = PAGE_LIMIT and the query
\* unchanged as title.
C5_ZeroBasedPageSent ==
    \A c \in CallIds :
        (calls[c].op = "search" /\ IsSome(calls[c].request))
        => LET q == Unwrap(calls[c].request).query
           IN /\ q.page >= 0
              /\ PageOf(c) > MinI32
              /\ q.page = PageOf(c) - 1
              /\ q.num_results = PAGE_LIMIT
              /\ q.title = calls[c].arg

\* The outcome of a finished call as its own arguments and the reply to its
\* own request (the outcome of the request, then the body read) determine
\* it.
OwnOutcome(c) ==
    IF Unwrap(calls[c].response).transport = "err" THEN Err
    ELSE IF calls[c].op = "details"
        THEN details_finish(Unwrap(calls[c].body))
        ELSE search_finish(build, calls[c].page, Unwrap(calls[c].body))

\* C6: under every interleaving of the calls in flight, the client is the
\* one the constructor built, every request goes to its base endpoint with
\* the call's own arguments, and every finished call's result is the one
\* its own arguments and the reply to its own request determine.
C6_CallsDoNotInterfere ==
    /\ client \in {Unbuilt, new(config)}
    /\ \A c \in CallIds :
        /\ IsSome(calls[c].request)
            => /\ Unwrap(calls[c].request).base_url = new(config).base_url
               /\ Unwrap(calls[c].request) =
                    IF calls[c].op = "details"
                        THEN details_request(new(config), calls[c].arg)
                        ELSE Unwrap(search_request(build, new(config),
                                                   calls[c].arg, calls[c].page))
        /\ (Done(c) /\ IsSome(calls[c].response)) => Result(c) = OwnOutcome(c)
        /\ IsSome(calls[c].body) => Unwrap(calls[c].response).transport = "ok"

\* Two calls of different operations have finished side by side, each on a
\* different body.
C6_Witness ==
    \E c, d \in CallIds :
        /\ c # d
        /\ Done(c) /\ calls[c].op = "search" /\ Result(c).kind = "Ok"
        /\ Done(d) /\ calls[d].op = "details" /\ Result(d).kind = "Ok"
        /\ calls[c].body # calls[d].body

\* The node names of the category ladders of an item.
LadderNames(it) ==
    IF it.category_ladders = None THEN {}
    ELSE UNION {{g.ladder[i].name : i \in 1..Len(g.ladder)} :
                    g \in Range(Unwrap(it.category_ladders))}

\* C7: the normalized genres hold each distinct node name of the category
\* ladders exactly once and nothing else; a missing category_ladders field
\* yields no genre.
C7_GenresDistinctNames ==
    stage \in {"normalized", "narrowed"}
    => LET g == Unwrap(media).genres
       IN /\ Range(g) = LadderNames(Unwrap(item))
          /\ Cardinality(Range(g)) = Len(g)
          /\ (Unwrap(item).category_ladders = None => g = <<>>)

\* The groups [[A], [B, A]] are normalized to the two genres A and B.
C7_Witness ==
    /\ stage = "normalized"
    /\ Unwrap(item).category_ladders =
        Some(<<[ladder |-> <<NamedObject("A")>>],
               [ladder |-> <<NamedObject("B"), NamedObject("A")>>]>>)
    /\ Range(Unwrap(media).genres) = {"A", "B"}
    /\ Len(Unwrap(media).genres) = 2

\* C8: the normalized creators are the upstream authors in order, each with
\* role "Author", then the upstream narrators in order, each with role
\* "Narrator"; a missing list counts as empty.
C8_CreatorsAuthorsThenNarrators ==
    stage \in {"normalized", "narrowed"}
    => LET cr == Unwrap(media).creators
           au == IF Unwrap(item).authors = None THEN <<>> ELSE Unwrap(item).authors[1]
           na == IF Unwrap(item).narrators = None THEN <<>> ELSE Unwrap(item).narrators[1]
       IN /\ Len(cr) = Len(au) + Len(na)
          /\ \A i \in 1..Len(au) :
                cr[i].name = au[i].name /\ cr[i].role = "Author"
          /\ \A j \in 1..Len(na) :
                cr[Len(au) + j].name = na[j].name /\ cr[Len(au) + j].role = "Narrator"

\* Two authors and a narrator who is also an author: three creators.
C8_Witness ==
    /\ stage = "normalized"
    /\ Unwrap(item).authors = Some(<<NamedObject("Ann"), NamedObject("Bob")>>)
    /\ Unwrap(item).narrators = Some(<<NamedObject("Ann")>>)
    /\ Len(Unwrap(media).creators) = 3
    /\ Unwrap(media).creators[3] = MetadataCreator("Ann", "Narrator")

\* C9: the normalized description is publisher_summary when it is present,
\* merchandising_summary when only that one is present, and None when both
\* are absent; it is always one of the two values, never a combination.
C9_DescriptionPrimaryThenSecondary ==
    stage \in {"normalized", "narrowed"}
    => LET d == Unwrap(media).description
           ps == Unwrap(item).publisher_summary
           ms == Unwrap(item).merchandising_summary
       IN /\ (ps # None => d = ps)
          /\ (ps = None /\ ms # None => d = ms)
          /\ (ps = None /\ ms = None => d = None)
          /\ d \in {None, ps, ms}

\* The primary summary is absent and the secondary one is the description.
C9_Witness ==
    /\ stage = "normalized"
    /\ Unwrap(item).publisher_summary = None
    /\ Unwrap(item).merchandising_summary = Some("merch")
    /\ Unwrap(media).description = Some("merch")

\* C10: the normalizer produces no image when the "2400" field is absent
\* and one image when it is present, always of the remote-URL kind, so the
\* narrowing of search never reaches its S3 arm and the item's images are
\* exactly those URLs in order.
C10_ImagesAreUrls ==
    /\ stage \in {"normalized", "narrowed"}
        => LET im == Unwrap(media).images
               src == Unwrap(item).product_images.image
           IN /\ Len(im) = IF src = None THEN 0 ELSE 1
              /\ \A i \in 1..Len(im) : im[i].url.kind = "Url" /\ im[i].url.value = src[i]
    /\ stage = "narrowed"
        => /\ Unwrap(narrowed).kind = "Ok"
           /\ Unwrap(Unwrap(narrowed).value).images = Unwrap(item).product_images.image

\* An item with the image field has been narrowed to a search item.
C10_Witness ==
    /\ stage = "narrowed"
    /\ Unwrap(item).product_images.image = Some("https://m.media/2400.jpg")
    /\ Unwrap(narrowed).kind = "Ok"
    /\ Unwrap(Unwrap(narrowed).value).images = <<"https://m.media/2400.jpg">>

=============================================================================
